---- MODULE Spec2Model ----
(***************************************************************************)
(* Fritter back end: the user collection (social graph, interests, VSP     *)
(* flag), the VSP request workflow and the endorsements / denouncements of *)
(* freets, as Express routes over three MongoDB collections.  A request is modelled either as one atomic action (the    *)
(* whole middleware chain and handler) or, for the interleaving            *)
(* specifications, as the sequence of its storage round trips.             *)
(***************************************************************************)
EXTENDS Integers, Sequences, FiniteSets, TLC

(***************************************************************************)
(* Bounds of the model.                                                    *)
(***************************************************************************)
\* number of accounts ever created (ObjectIds are never reused)
MaxUsers == 3
\* cap on the length of a following / followers / interests array
MaxList == 2
\* number of requests that may be in flight at once
MaxProcs == 2
\* number of freets ever created
MaxFreets == 2
\* number of freets the ledger specification creates
MaxLedgerFreets == 1

(***************************************************************************)
(* Values.                                                                 *)
(***************************************************************************)
\* usernames that request bodies may carry; "Dave" differs from "dave" only
\* in case
Names == {"lola", "dave", "Dave", "erin"}

\* the case-insensitive flag of the username regular expressions
Lower(n) == IF n = "Dave" THEN "dave" ELSE n

\* interest keywords
Keywords == {"rust", "go"}

\* freet contents
Contents == {"I love rust", "I love go"}

\* the characters of a string
Chars(str) ==
  CASE str = "rust" -> <<"r", "u", "s", "t">>
    [] str = "go" -> <<"g", "o">>
    [] str = "I love rust" -> <<"I", " ", "l", "o", "v", "e", " ", "r", "u", "s", "t">>
    [] str = "I love go" -> <<"I", " ", "l", "o", "v", "e", " ", "g", "o">>
    [] OTHER -> <<>>

\* String.prototype.includes: part occurs in str as a literal substring
stringIncludes(str, part) ==
  LET c == Chars(str)
      k == Chars(part)
  IN \E i \in 0..(Len(c) - Len(k)) : \A j \in 1..Len(k) : c[i + j] = k[j]

\* the hardcoded administrative username
AdminName == "lola"

\* an absent (undefined) body field / a missing document
NoVal == ""
NoUser == [username |-> NoVal]

UserIds == 1..MaxUsers
Procs == 1..MaxProcs

\* a missing freet document
NoFreet == [authorId |-> 0]

FreetIds == 1..MaxFreets

VARIABLES
  users,        \* UserModel collection: UserIds -> user document or NoUser
  vsprequests,  \* VSPRequestModel collection, in insertion order
  last,         \* the response to the last completed request
  revoked,      \* history: usernames whose request was last decided by a revoke
  inflight,     \* Procs -> the request a connection is in the middle of
  freets,       \* FreetModel collection: FreetIds -> freet document or NoFreet
  listed        \* the documents in the body of the response last, if it lists any

vars == <<users, vsprequests, last, revoked, inflight, freets, listed>>

(***************************************************************************)
(* Array helpers (Array.prototype.includes / indexOf / splice / push).     *)
(***************************************************************************)
includes(s, x) == \E i \in 1..Len(s) : s[i] = x

indexOf(s, x) ==
  IF includes(s, x) THEN CHOOSE i \in 1..Len(s) : s[i] = x /\ \A j \in 1..(i-1) : s[j] # x
  ELSE 0

splice(s, i) == [j \in 1..(Len(s)-1) |-> IF j < i THEN s[j] ELSE s[j+1]]

\* indexOf followed by splice(index, 1) when index > -1
removeFirst(s, x) == IF indexOf(s, x) > 0 THEN splice(s, indexOf(s, x)) ELSE s

(***************************************************************************)
(* UserCollection.                                                         *)
(***************************************************************************)
Exists(us, id) == id \in UserIds /\ us[id] # NoUser

ExistingIds(us) == {id \in UserIds : Exists(us, id)}

\* UserModel.findOne({username: name}): exact match, first in insertion order
findOneExact(us, name) ==
  LET m == {id \in ExistingIds(us) : us[id].username = name}
  IN IF m = {} THEN 0 ELSE CHOOSE id \in m : \A o \in m : id <= o

\* UserCollection.findOneByUsername: case-insensitive match
findOneByUsername(us, name) ==
  LET m == {id \in ExistingIds(us) : Lower(us[id].username) = Lower(name)}
  IN IF m = {} THEN 0 ELSE CHOOSE id \in m : \A o \in m : id <= o

\* UserCollection.addOne: the document a signup stores
addOne(name) ==
  [username |-> name, VSP |-> FALSE, interests |-> <<>>,
   followers |-> <<>>, following |-> <<>>]

\* a request body; absent string fields are NoVal, absent flags FALSE
Body(username, VSP, revoke, interests, deleteInterest, following, unfollow) ==
  [username |-> username, VSP |-> VSP, revoke |-> revoke,
   interests |-> interests, deleteInterest |-> deleteInterest,
   following |-> following, unfollow |-> unfollow]

EmptyBody == Body(NoVal, FALSE, FALSE, NoVal, FALSE, NoVal, FALSE)

\* faulty variant: the revoke flag is ignored
setVSP_always(u, d) == [u EXCEPT !.VSP = TRUE]

\* faulty variant: the VSP branch also empties the following list
setVSP_resetFollowing(u, d) == [u EXCEPT !.VSP = ~d.revoke, !.following = <<>>]

\* the VSP branch of updateOne
setVSP(u, d) == [u EXCEPT !.VSP = ~d.revoke]

\* the username / interests part of the else branch of updateOne
setProfile(u, d) ==
  LET u1 == IF d.username # NoVal THEN [u EXCEPT !.username = d.username] ELSE u
      u2 == IF d.interests # NoVal /\ ~d.deleteInterest
              THEN [u1 EXCEPT !.interests = Append(@, d.interests)] ELSE u1
      u3 == IF d.interests # NoVal /\ d.deleteInterest
              THEN [u2 EXCEPT !.interests = removeFirst(@, d.interests)] ELSE u2
  IN u3

\* faulty variant: the followed user's document is not saved
pushFollower_lost(us, target, name) == us

\* followedUser.followers.push(user.username); followedUser.save()
pushFollower(us, target, name) ==
  [us EXCEPT ![target].followers = Append(@, name)]

\* faulty variant: the name is pushed twice
pushFollowing_twice(u, name) == [u EXCEPT !.following = Append(Append(@, name), name)]

\* user.following.push(userDetails.following); user.save()
pushFollowing(u, name) == [u EXCEPT !.following = Append(@, name)]

\* the splice of followedUser.followers; followedUser.save()
spliceFollower(us, target, name) ==
  [us EXCEPT ![target].followers = removeFirst(@, name)]

\* the splice of user.following; user.save()
spliceFollowing(u, name) == [u EXCEPT !.following = removeFirst(@, name)]

\* user.save(): the modified paths of the in-memory document are written to
\* the stored one
saveUser(us, id, u) == [us EXCEPT ![id] = u]

\* UserCollection.updateOne: threw is TRUE when the call rejects (a null
\* document is dereferenced); users is the collection it leaves behind
updateOne(us, userId, d) ==
  IF ~Exists(us, userId) THEN [threw |-> TRUE, users |-> us]
  ELSE IF d.VSP THEN [threw |-> FALSE, users |-> saveUser(us, userId, setVSP(us[userId], d))]
  ELSE
    LET u1 == setProfile(us[userId], d)
        t  == findOneExact(us, d.following)
    IN IF d.following = NoVal THEN [threw |-> FALSE, users |-> saveUser(us, userId, u1)]
       ELSE IF t = 0 THEN [threw |-> TRUE, users |-> us]
       ELSE IF ~d.unfollow THEN
         LET us1 == pushFollower(us, t, u1.username)
             \* the actor's own document, had the target's save changed it
             u2  == [pushFollowing(u1, d.following) EXCEPT !.followers =
                       IF t = userId THEN us1[t].followers ELSE @]
         IN [threw |-> FALSE, users |-> saveUser(us1, userId, u2)]
       ELSE
         LET us1 == spliceFollower(us, t, u1.username)
             u2  == [spliceFollowing(u1, d.following) EXCEPT !.followers =
                       IF t = userId THEN us1[t].followers ELSE @]
         IN [threw |-> FALSE, users |-> saveUser(us1, userId, u2)]

(***************************************************************************)
(* Responses.                                                              *)
(***************************************************************************)
Response(op, actor, arg, status, error) ==
  [op |-> op, actor |-> actor, arg |-> arg, status |-> status, error |-> error,
   tick |-> 1 - last.tick]

\* res.status(status).json({error}) of a middleware, or 0 when it calls next()
Reject(status, error) == [status |-> status, error |-> error]

Pass == Reject(0, "")

\* an unhandled rejection inside an async handler: no response is sent
\* (status 0)
Thrown(op, actor, arg, error) == Response(op, actor, arg, 0, error)

(***************************************************************************)
(* User middleware.                                                        *)
(***************************************************************************)
isUsernameNotAlreadyInUse(us, sessionId, name) ==
  findOneByUsername(us, name) = 0 \/ findOneByUsername(us, name) = sessionId

\* faulty variant: the followers array is looked at instead of following
isUserAlreadyFollowingTargetUser_followers(us, id, d) == includes(us[id].followers, d.following)

\* TRUE when the middleware answers 409 'User is already following target user.'
isUserAlreadyFollowingTargetUser(us, id, d) == includes(us[id].following, d.following)

isUserNotYetFollowingTargetUser(us, id, d) == ~includes(us[id].following, d.following)

isUserTryingToFollowSelf(us, id, d) == us[id].username = d.following

\* the arrays of the documents updateOne would write stay within MaxList
WithinBound(us) ==
  \A id \in ExistingIds(us) :
    /\ Len(us[id].following) <= MaxList
    /\ Len(us[id].followers) <= MaxList
    /\ Len(us[id].interests) <= MaxList

(***************************************************************************)
(* User routes, each as one atomic request.                                *)
(***************************************************************************)
Idle == \A p \in Procs : inflight[p].pc = "idle"

\* POST /api/users
Signup(name) ==
  /\ Idle
  /\ \E id \in UserIds :
       /\ ~Exists(users, id)
       /\ \A o \in UserIds : o < id => users[o] # NoUser
       /\ IF isUsernameNotAlreadyInUse(users, 0, name)
            THEN /\ users' = [users EXCEPT ![id] = addOne(name)]
                 /\ last' = Response("signup", id, name, 201, "")
            ELSE /\ users' = users
                 /\ last' = Response("signup", 0, name, 409, "UsernameInUse")
  /\ UNCHANGED <<vsprequests, revoked, inflight, freets>>
  /\ listed' = <<>>

\* PATCH /api/users/followers
Follow(actor, d) ==
  /\ Idle
  /\ Exists(users, actor)
  /\ IF isUserAlreadyFollowingTargetUser(users, actor, d)
       THEN /\ last' = Response("follow", actor, d.following, 409, "AlreadyFollowing")
            /\ users' = users
     ELSE IF isUserTryingToFollowSelf(users, actor, d)
       THEN /\ last' = Response("follow", actor, d.following, 403, "SelfFollow")
            /\ users' = users
     ELSE LET r == updateOne(users, actor, d)
          IN /\ WithinBound(r.users)
             /\ users' = r.users
             /\ last' = IF r.threw
                          THEN Thrown("follow", actor, d.following, "TypeError")
                          ELSE Response("follow", actor, d.following, 200, "")
  /\ UNCHANGED <<vsprequests, revoked, inflight, freets>>
  /\ listed' = <<>>

\* DELETE /api/users/followers
Unfollow(actor, d) ==
  /\ Idle
  /\ Exists(users, actor)
  /\ IF isUserNotYetFollowingTargetUser(users, actor, d)
       THEN /\ last' = Response("unfollow", actor, d.following, 409, "NotFollowing")
            /\ users' = users
     ELSE LET r == updateOne(users, actor, [d EXCEPT !.unfollow = TRUE])
          IN /\ users' = r.users
             /\ last' = IF r.threw
                          THEN Thrown("unfollow", actor, d.following, "TypeError")
                          ELSE Response("unfollow", actor, d.following, 200, "")
  /\ UNCHANGED <<vsprequests, revoked, inflight, freets>>
  /\ listed' = <<>>

\* the bodies of a non-admin request may carry any further field; VSP and
\* revoke are the ones updateOne looks at first
WithExtras(bodies) ==
  bodies \cup {[d EXCEPT !.VSP = TRUE, !.revoke = r] : d \in bodies, r \in BOOLEAN}

\* PUT /api/users
UpdateProfile(actor, d) ==
  /\ Idle
  /\ Exists(users, actor)
  /\ d.username # NoVal
  /\ IF ~isUsernameNotAlreadyInUse(users, actor, d.username)
       THEN /\ last' = Response("update", actor, d.username, 409, "UsernameInUse")
            /\ users' = users
     ELSE LET r == updateOne(users, actor, d)
          IN /\ WithinBound(r.users)
             /\ users' = r.users
             /\ last' = IF r.threw
                          THEN Thrown("update", actor, d.username, "TypeError")
                          ELSE Response("update", actor, d.username, 200, "")
  /\ UNCHANGED <<vsprequests, revoked, inflight, freets>>
  /\ listed' = <<>>

isUserAlreadyAddedInterest(us, id, d) == includes(us[id].interests, d.interests)

isUserNotYetAddedInterest(us, id, d) == ~includes(us[id].interests, d.interests)

\* PATCH /api/users/interests
AddInterest(actor, d) ==
  /\ Idle
  /\ Exists(users, actor)
  /\ IF isUserAlreadyAddedInterest(users, actor, d)
       THEN /\ last' = Response("addInterest", actor, d.interests, 409, "AlreadyPresent")
            /\ users' = users
     ELSE LET r == updateOne(users, actor, d)
          IN /\ WithinBound(r.users)
             /\ users' = r.users
             /\ last' = Response("addInterest", actor, d.interests, 200, "")
  /\ UNCHANGED <<vsprequests, revoked, inflight, freets>>
  /\ listed' = <<>>

\* DELETE /api/users/interests
DeleteInterest(actor, d) ==
  /\ Idle
  /\ Exists(users, actor)
  /\ IF isUserNotYetAddedInterest(users, actor, d)
       THEN /\ last' = Response("deleteInterest", actor, d.interests, 409, "NotPresent")
            /\ users' = users
     ELSE LET r == updateOne(users, actor, [d EXCEPT !.deleteInterest = TRUE])
          IN /\ users' = r.users
             /\ last' = Response("deleteInterest", actor, d.interests, 200, "")
  /\ UNCHANGED <<vsprequests, revoked, inflight, freets>>
  /\ listed' = <<>>

(***************************************************************************)
(* VSPRequestCollection.                                                   *)
(***************************************************************************)
\* the first document of rs that satisfies P, as an index, or 0
firstIndex(rs, P(_)) ==
  IF \E i \in 1..Len(rs) : P(rs[i])
    THEN CHOOSE i \in 1..Len(rs) : P(rs[i]) /\ \A j \in 1..(i-1) : ~P(rs[j])
    ELSE 0

\* VSPRequestCollection.findOneByUsername: case-insensitive match
VSPRequest_findOneByUsername(rs, name) ==
  LET P(r) == Lower(r.username) = Lower(name) IN firstIndex(rs, P)

\* VSPRequestModel.findOne({username: username}): exact match
VSPRequest_findOneExact(rs, name) ==
  LET P(r) == r.username = name IN firstIndex(rs, P)

\* VSPRequestCollection.addOne
VSPRequest_addOne(rs, name) == Append(rs, [username |-> name, granted |-> FALSE])

\* VSPRequestCollection.acceptOne, when the document is found
acceptOne(rs, name) ==
  [rs EXCEPT ![VSPRequest_findOneExact(rs, name)].granted = TRUE]

\* VSPRequestCollection.ungrantOne, when the document is found
ungrantOne(rs, name) ==
  [rs EXCEPT ![VSPRequest_findOneExact(rs, name)].granted = FALSE]

\* VSPRequestCollection.deleteOne: removes the first exact match, if any
VSPRequest_deleteOne(rs, name) ==
  IF VSPRequest_findOneExact(rs, name) = 0 THEN rs
  ELSE splice(rs, VSPRequest_findOneExact(rs, name))

\* faulty variant: the granted flag is not part of the query
getAll_everything(rs) == rs

\* VSPRequestCollection.getAll: the requests not granted, in insertion order
getAll(rs) ==
  LET P(r) == ~r.granted IN SelectSeq(rs, P)

\* VSPRequestCollection.getAllVSPs: the users with VSP set, in insertion order
getAllVSPs(us) ==
  LET P(u) == u # NoUser /\ u.VSP IN SelectSeq([id \in UserIds |-> us[id]], P)

(***************************************************************************)
(* VSP request middleware.                                                 *)
(***************************************************************************)
\* TRUE when the middleware answers 409 'User is already a VSP.'
isUserAlreadyVSP(us, id) == us[id].VSP

\* faulty variant: the check for an existing request is missing
isUserAlreadySubmittedRequest_never(us, rs, id) == FALSE

\* TRUE when the middleware answers 409 'User has already submitted a request.'
isUserAlreadySubmittedRequest(us, rs, id) ==
  VSPRequest_findOneByUsername(rs, us[id].username) # 0

\* faulty variant: every logged-in user passes
isUserAdmin_anyone(us, id) == TRUE

\* TRUE when the middleware calls next()
isUserAdmin(us, id) == us[id].username = AdminName

\* TRUE when the middleware calls next()
isRequestExists(rs, name) == VSPRequest_findOneByUsername(rs, name) # 0

\* faulty variant: a granted request is not refused
isRequestAlreadyAccepted_never(rs, name) == FALSE

\* TRUE when the middleware answers 409 'Request already granted.'
isRequestAlreadyAccepted(rs, name) ==
  rs[VSPRequest_findOneByUsername(rs, name)].granted

\* TRUE when the middleware answers 409 'Request has not yet been granted.'
isRequestNotYetGranted(rs, name) ==
  ~rs[VSPRequest_findOneByUsername(rs, name)].granted

\* the middleware chain of POST /api/vsprequest
SubmitChain(us, rs, actor) ==
  IF isUserAlreadyVSP(us, actor) THEN Reject(409, "AlreadyVerified")
  ELSE IF isUserAlreadySubmittedRequest(us, rs, actor) THEN Reject(409, "RequestAlreadyExists")
  ELSE Pass

\* the middleware chain of PUT /api/vsprequest
AcceptChain(us, rs, actor, name) ==
  IF ~isUserAdmin(us, actor) THEN Reject(401, "NotAuthorized")
  ELSE IF ~isRequestExists(rs, name) THEN Reject(404, "RequestNotFound")
  ELSE IF isRequestAlreadyAccepted(rs, name) THEN Reject(409, "AlreadyGranted")
  ELSE Pass

\* the middleware chain of DELETE /api/vsprequest/vspstatus
RevokeChain(us, rs, actor, name) ==
  IF ~isUserAdmin(us, actor) THEN Reject(401, "NotAuthorized")
  ELSE IF ~isRequestExists(rs, name) THEN Reject(404, "RequestNotFound")
  ELSE IF isRequestNotYetGranted(rs, name) THEN Reject(409, "NotYetGranted")
  ELSE Pass

\* the middleware chain of the routes that only require the administrator
AdminChain(us, actor) ==
  IF ~isUserAdmin(us, actor) THEN Reject(401, "NotAuthorized") ELSE Pass

\* the user write of the accept handler: req.body.VSP = true, then updateOne
\* on the user found by findOneByUsername
AcceptUserWrite(us, name) ==
  updateOne(us, findOneByUsername(us, name), [EmptyBody EXCEPT !.username = name, !.VSP = TRUE])

\* the user write of the revoke handler: req.body.VSP = true and
\* req.body.revoke = true, then updateOne
RevokeUserWrite(us, name) ==
  updateOne(us, findOneByUsername(us, name),
            [EmptyBody EXCEPT !.username = name, !.VSP = TRUE, !.revoke = TRUE])

(***************************************************************************)
(* VSP request routes, each as one atomic request.                         *)
(***************************************************************************)
\* POST /api/vsprequest
Submit(actor) ==
  /\ Idle
  /\ Exists(users, actor)
  /\ LET c == SubmitChain(users, vsprequests, actor)
         name == users[actor].username
     IN IF c # Pass
          THEN /\ last' = Response("submit", actor, name, c.status, c.error)
               /\ UNCHANGED <<vsprequests, revoked>>
          ELSE /\ vsprequests' = VSPRequest_addOne(vsprequests, name)
               /\ revoked' = {n \in revoked : Lower(n) # Lower(name)}
               /\ last' = Response("submit", actor, name, 201, "")
  /\ UNCHANGED <<users, inflight, freets>>
  /\ listed' = <<>>

\* PUT /api/vsprequest
Accept(actor, name) ==
  /\ Idle
  /\ Exists(users, actor)
  /\ LET c == AcceptChain(users, vsprequests, actor, name)
     IN IF c # Pass
          THEN /\ last' = Response("accept", actor, name, c.status, c.error)
               /\ UNCHANGED <<users, vsprequests>>
        ELSE IF VSPRequest_findOneExact(vsprequests, name) = 0
          THEN /\ last' = Thrown("accept", actor, name, "TypeError")
               /\ UNCHANGED <<users, vsprequests>>
        ELSE /\ vsprequests' = acceptOne(vsprequests, name)
             /\ LET r == AcceptUserWrite(users, name)
                IN /\ users' = r.users
                   /\ last' = IF r.threw
                                THEN Thrown("accept", actor, name, "TypeError")
                                ELSE Response("accept", actor, name, 200, "")
  /\ UNCHANGED <<revoked, inflight, freets>>
  /\ listed' = <<>>

\* faulty variant: the revoke also takes the username off every ledger
Revoke_purges(actor, name) ==
  /\ Idle
  /\ Exists(users, actor)
  /\ LET c == RevokeChain(users, vsprequests, actor, name)
     IN IF c # Pass
          THEN /\ last' = Response("revoke", actor, name, c.status, c.error)
               /\ UNCHANGED <<users, vsprequests, revoked>>
        ELSE IF VSPRequest_findOneExact(vsprequests, name) = 0
          THEN /\ last' = Thrown("revoke", actor, name, "TypeError")
               /\ UNCHANGED <<users, vsprequests, revoked>>
        ELSE /\ vsprequests' = ungrantOne(vsprequests, name)
             /\ LET r == RevokeUserWrite(users, name)
                IN /\ users' = r.users
                   /\ revoked' = IF r.threw THEN revoked ELSE revoked \cup {name}
                   /\ last' = IF r.threw
                                THEN Thrown("revoke", actor, name, "TypeError")
                                ELSE Response("revoke", actor, name, 200, "")
  /\ freets' = [f \in FreetIds |->
                  IF freets[f] = NoFreet THEN NoFreet
                  ELSE [freets[f] EXCEPT !.endorsements = removeFirst(@, name),
                                         !.denouncements = removeFirst(@, name)]]
  /\ UNCHANGED inflight
  /\ listed' = <<>>

\* DELETE /api/vsprequest/vspstatus
Revoke(actor, name) ==
  /\ Idle
  /\ Exists(users, actor)
  /\ LET c == RevokeChain(users, vsprequests, actor, name)
     IN IF c # Pass
          THEN /\ last' = Response("revoke", actor, name, c.status, c.error)
               /\ UNCHANGED <<users, vsprequests, revoked>>
        ELSE IF VSPRequest_findOneExact(vsprequests, name) = 0
          THEN /\ last' = Thrown("revoke", actor, name, "TypeError")
               /\ UNCHANGED <<users, vsprequests, revoked>>
        ELSE /\ vsprequests' = ungrantOne(vsprequests, name)
             /\ LET r == RevokeUserWrite(users, name)
                IN /\ users' = r.users
                   /\ revoked' = IF r.threw THEN revoked ELSE revoked \cup {name}
                   /\ last' = IF r.threw
                                THEN Thrown("revoke", actor, name, "TypeError")
                                ELSE Response("revoke", actor, name, 200, "")
  /\ UNCHANGED <<inflight, freets>>
  /\ listed' = <<>>

\* DELETE /api/vsprequest
DeleteRequest(actor, name) ==
  /\ Idle
  /\ Exists(users, actor)
  /\ LET c == AdminChain(users, actor)
     IN IF c # Pass
          THEN /\ last' = Response("deleteRequest", actor, name, c.status, c.error)
               /\ UNCHANGED vsprequests
          ELSE /\ vsprequests' = VSPRequest_deleteOne(vsprequests, name)
               /\ last' = Response("deleteRequest", actor, name, 200, "")
  /\ UNCHANGED <<users, revoked, inflight, freets>>
  /\ listed' = <<>>

\* GET /api/vsprequest
ListPending(actor) ==
  /\ Idle
  /\ Exists(users, actor)
  /\ LET c == AdminChain(users, actor)
     IN IF c # Pass
          THEN /\ last' = Response("listPending", actor, NoVal, c.status, c.error)
               /\ listed' = <<>>
          ELSE /\ last' = Response("listPending", actor, NoVal, 200, "")
               /\ listed' = getAll(vsprequests)
  /\ UNCHANGED <<users, vsprequests, revoked, inflight, freets>>

\* GET /api/vsprequest/VSPs
ListVSPs(actor) ==
  /\ Idle
  /\ Exists(users, actor)
  /\ LET c == AdminChain(users, actor)
     IN IF c # Pass
          THEN /\ last' = Response("listVSPs", actor, NoVal, c.status, c.error)
               /\ listed' = <<>>
          ELSE /\ last' = Response("listVSPs", actor, NoVal, 200, "")
               /\ listed' = getAllVSPs(users)
  /\ UNCHANGED <<users, vsprequests, revoked, inflight, freets>>

(***************************************************************************)
(* FreetCollection.                                                        *)
(***************************************************************************)
FreetExists(fs, f) == f \in FreetIds /\ fs[f] # NoFreet

\* FreetCollection.addOne: the document a new freet stores
Freet_addOne(authorId, content, fact) ==
  [authorId |-> authorId, content |-> content, fact |-> fact,
   endorsements |-> <<>>, denouncements |-> <<>>]

\* FreetCollection.addOneEndorsement
addOneEndorsement(fs, f, name) == [fs EXCEPT ![f].endorsements = Append(@, name)]

\* faulty variant: every occurrence of the username is removed
deleteOneEndorsement_all(fs, f, name) ==
  [fs EXCEPT ![f].endorsements = LET Other(x) == x # name IN SelectSeq(@, Other)]

\* FreetCollection.deleteOneEndorsement
deleteOneEndorsement(fs, f, name) == [fs EXCEPT ![f].endorsements = removeFirst(@, name)]

\* faulty variant: denouncing also withdraws the actor's endorsement
addOneDenouncement_exclusive(fs, f, name) ==
  [fs EXCEPT ![f].denouncements = Append(@, name),
             ![f].endorsements = removeFirst(@, name)]

\* FreetCollection.addOneDenouncement
addOneDenouncement(fs, f, name) == [fs EXCEPT ![f].denouncements = Append(@, name)]

\* FreetCollection.deleteOneDenouncement
deleteOneDenouncement(fs, f, name) == [fs EXCEPT ![f].denouncements = removeFirst(@, name)]

(***************************************************************************)
(* Freet middleware.                                                       *)
(***************************************************************************)
\* TRUE when the middleware calls next()
isFreetExists(fs, f) == FreetExists(fs, f)

\* faulty variant: the fact flag is not looked at
isFreetAFact_any(fs, f) == TRUE

\* TRUE when the middleware calls next()
isFreetAFact(fs, f) == fs[f].fact

\* faulty variant: every logged-in user passes
isUserVSP_anyone(us, id) == TRUE

\* TRUE when the middleware calls next()
isUserVSP(us, id) == us[id].VSP

\* faulty variant: an endorsement already there is not noticed
isUserAlreadyEndorsed_never(fs, us, f, id) == FALSE

\* TRUE when the middleware answers 409 'You have already endorsed this freet.'
isUserAlreadyEndorsed(fs, us, f, id) == includes(fs[f].endorsements, us[id].username)

\* TRUE when the middleware answers 409 'You have already denounced this freet.'
isUserAlreadyDenounced(fs, us, f, id) == includes(fs[f].denouncements, us[id].username)

\* TRUE when the middleware answers 409 'You have not yet endorsed this freet.'
isUserNotYetEndorsed(fs, us, f, id) == ~includes(fs[f].endorsements, us[id].username)

\* TRUE when the middleware answers 409 'You have not yet denounced this freet.'
isUserNotYetDenounced(fs, us, f, id) == ~includes(fs[f].denouncements, us[id].username)

\* the gating middleware the four ledger routes share: the freet exists, it
\* is a fact, the caller is a VSP
GateChain(fs, us, f, id) ==
  IF ~isFreetExists(fs, f) THEN Reject(404, "FreetNotFound")
  ELSE IF ~isFreetAFact(fs, f) THEN Reject(403, "NotAFact")
  ELSE IF ~isUserVSP(us, id) THEN Reject(403, "NotVerified")
  ELSE Pass

\* the middleware chain of PATCH /api/freets/endorsements
EndorseChain(fs, us, f, id) ==
  IF GateChain(fs, us, f, id) # Pass THEN GateChain(fs, us, f, id)
  ELSE IF isUserAlreadyEndorsed(fs, us, f, id) THEN Reject(409, "AlreadyEndorsed")
  ELSE Pass

\* the middleware chain of PATCH /api/freets/unendorsements
UnendorseChain(fs, us, f, id) ==
  IF GateChain(fs, us, f, id) # Pass THEN GateChain(fs, us, f, id)
  ELSE IF isUserNotYetEndorsed(fs, us, f, id) THEN Reject(409, "NotYetEndorsed")
  ELSE Pass

\* the middleware chain of PATCH /api/freets/denouncements
DenounceChain(fs, us, f, id) ==
  IF GateChain(fs, us, f, id) # Pass THEN GateChain(fs, us, f, id)
  ELSE IF isUserAlreadyDenounced(fs, us, f, id) THEN Reject(409, "AlreadyDenounced")
  ELSE Pass

\* the middleware chain of PATCH /api/freets/undenouncements
UndenounceChain(fs, us, f, id) ==
  IF GateChain(fs, us, f, id) # Pass THEN GateChain(fs, us, f, id)
  ELSE IF isUserNotYetDenounced(fs, us, f, id) THEN Reject(409, "NotYetDenounced")
  ELSE Pass

\* the endorsements and denouncements arrays stay within MaxList
LedgerWithinBound(fs) ==
  \A f \in FreetIds :
    FreetExists(fs, f) =>
      Len(fs[f].endorsements) <= MaxList /\ Len(fs[f].denouncements) <= MaxList

(***************************************************************************)
(* Freet routes, each as one atomic request.                               *)
(***************************************************************************)
\* POST /api/freets
CreateFreet(actor, content, fact) ==
  /\ Idle
  /\ Exists(users, actor)
  /\ \E f \in FreetIds :
       /\ ~FreetExists(freets, f)
       /\ \A o \in FreetIds : o < f => freets[o] # NoFreet
       /\ freets' = [freets EXCEPT ![f] = Freet_addOne(actor, content, fact)]
       /\ last' = Response("createFreet", actor, ToString(f), 201, "")
  /\ UNCHANGED <<users, vsprequests, revoked, inflight>>
  /\ listed' = <<>>

\* a ledger route: its middleware chain c, then the collection call that
\* leaves written behind
LedgerRequest(op, actor, f, c, written) ==
  /\ Idle
  /\ Exists(users, actor)
  /\ IF c # Pass
       THEN /\ last' = Response(op, actor, ToString(f), c.status, c.error)
            /\ freets' = freets
       ELSE /\ LedgerWithinBound(written)
            /\ freets' = written
            /\ last' = Response(op, actor, ToString(f), 200, "")
  /\ UNCHANGED <<users, vsprequests, revoked, inflight>>
  /\ listed' = <<>>

\* PATCH /api/freets/endorsements
Endorse(actor, f) ==
  LedgerRequest("endorse", actor, f, EndorseChain(freets, users, f, actor),
                addOneEndorsement(freets, f, users[actor].username))

\* PATCH /api/freets/unendorsements
Unendorse(actor, f) ==
  LedgerRequest("unendorse", actor, f, UnendorseChain(freets, users, f, actor),
                deleteOneEndorsement(freets, f, users[actor].username))

\* PATCH /api/freets/denouncements
Denounce(actor, f) ==
  LedgerRequest("denounce", actor, f, DenounceChain(freets, users, f, actor),
                addOneDenouncement(freets, f, users[actor].username))

\* PATCH /api/freets/undenouncements
Undenounce(actor, f) ==
  LedgerRequest("undenounce", actor, f, UndenounceChain(freets, users, f, actor),
                deleteOneDenouncement(freets, f, users[actor].username))

(***************************************************************************)
(* Initial state: empty collections, no request in flight.                 *)
(***************************************************************************)
IdleProc == [pc |-> "idle", actor |-> 0, arg |-> NoVal]

Init ==
  /\ users = [id \in UserIds |-> NoUser]
  /\ vsprequests = <<>>
  /\ last = [op |-> "none", actor |-> 0, arg |-> NoVal, status |-> 0, error |-> "", tick |-> 0]
  /\ revoked = {}
  /\ inflight = [p \in Procs |-> IdleProc]
  /\ freets = [f \in FreetIds |-> NoFreet]
  /\ listed = <<>>

\* the bodies the client sends to the followers routes: {following: name}
FollowBodies == {[EmptyBody EXCEPT !.following = n] : n \in Names}

(***************************************************************************)
(* SpecGraph: signup, follow and unfollow, one request at a time.          *)
(***************************************************************************)
NextGraph ==
  \/ \E n \in Names : Signup(n)
  \/ \E a \in UserIds, d \in FollowBodies : Follow(a, d)
  \/ \E a \in UserIds, d \in FollowBodies : Unfollow(a, d)

SpecGraph == Init /\ [][NextGraph]_vars

InterestBodies == {[EmptyBody EXCEPT !.interests = k] : k \in Keywords}

(***************************************************************************)
(* SpecInterests: signup and the interests routes, one request at a time,  *)
(* the bodies carrying further fields.                                     *)
(***************************************************************************)
\* the usernames the interests specification draws from
InterestNames == {"lola", "dave"}

NextInterests ==
  \/ \E n \in InterestNames : Signup(n)
  \/ \E a \in UserIds, d \in WithExtras(InterestBodies) : AddInterest(a, d)
  \/ \E a \in UserIds, d \in WithExtras(InterestBodies) : DeleteInterest(a, d)

SpecInterests == Init /\ [][NextInterests]_vars

(***************************************************************************)
(* SpecWorkflow: signup and the VSP request routes, one request at a time. *)
(***************************************************************************)
\* the usernames the workflow specifications draw from
WorkflowNames == {"lola", "dave", "Dave"}

NextWorkflow ==
  \/ \E n \in WorkflowNames : Signup(n)
  \/ \E a \in UserIds : Submit(a)
  \/ \E a \in UserIds, n \in WorkflowNames : Accept(a, n)
  \/ \E a \in UserIds, n \in WorkflowNames : Revoke(a, n)
  \/ \E a \in UserIds, n \in WorkflowNames : DeleteRequest(a, n)
  \/ \E a \in UserIds : ListPending(a)
  \/ \E a \in UserIds : ListVSPs(a)

SpecWorkflow == Init /\ [][NextWorkflow]_vars

(***************************************************************************)
(* The accept and revoke handlers as their separate storage round trips:   *)
(* the middleware chain (reads), the request write, the user write.        *)
(***************************************************************************)
Enter(p, pc, actor, arg) == [inflight EXCEPT ![p] = [pc |-> pc, actor |-> actor, arg |-> arg]]

Leave(p) == [inflight EXCEPT ![p] = IdleProc]

\* PUT /api/vsprequest: the middleware chain
AcceptStart(p, actor, name) ==
  /\ inflight[p].pc = "idle"
  /\ Exists(users, actor)
  /\ LET c == AcceptChain(users, vsprequests, actor, name)
     IN IF c # Pass
          THEN /\ last' = Response("accept", actor, name, c.status, c.error)
               /\ UNCHANGED inflight
          ELSE /\ inflight' = Enter(p, "acceptOne", actor, name)
               /\ UNCHANGED last
  /\ UNCHANGED <<users, vsprequests, revoked, freets, listed>>

\* VSPRequestCollection.acceptOne(req.body.username)
AcceptRequestWrite(p) ==
  /\ inflight[p].pc = "acceptOne"
  /\ LET name == inflight[p].arg
     IN IF VSPRequest_findOneExact(vsprequests, name) = 0
          THEN /\ last' = Thrown("accept", inflight[p].actor, name, "TypeError")
               /\ inflight' = Leave(p)
               /\ UNCHANGED vsprequests
          ELSE /\ vsprequests' = acceptOne(vsprequests, name)
               /\ inflight' = [inflight EXCEPT ![p].pc = "acceptUser"]
               /\ UNCHANGED last
  /\ UNCHANGED <<users, revoked, freets, listed>>

\* findOneByUsername, updateOne and the response of the accept handler
AcceptUserStep(p) ==
  /\ inflight[p].pc = "acceptUser"
  /\ LET name == inflight[p].arg
         r == AcceptUserWrite(users, name)
     IN /\ users' = r.users
        /\ last' = IF r.threw
                     THEN Thrown("accept", inflight[p].actor, name, "TypeError")
                     ELSE Response("accept", inflight[p].actor, name, 200, "")
  /\ inflight' = Leave(p)
  /\ UNCHANGED <<vsprequests, revoked, freets, listed>>

\* DELETE /api/vsprequest/vspstatus: the middleware chain
RevokeStart(p, actor, name) ==
  /\ inflight[p].pc = "idle"
  /\ Exists(users, actor)
  /\ LET c == RevokeChain(users, vsprequests, actor, name)
     IN IF c # Pass
          THEN /\ last' = Response("revoke", actor, name, c.status, c.error)
               /\ UNCHANGED inflight
          ELSE /\ inflight' = Enter(p, "ungrantOne", actor, name)
               /\ UNCHANGED last
  /\ UNCHANGED <<users, vsprequests, revoked, freets, listed>>

\* VSPRequestCollection.ungrantOne(req.body.username)
RevokeRequestWrite(p) ==
  /\ inflight[p].pc = "ungrantOne"
  /\ LET name == inflight[p].arg
     IN IF VSPRequest_findOneExact(vsprequests, name) = 0
          THEN /\ last' = Thrown("revoke", inflight[p].actor, name, "TypeError")
               /\ inflight' = Leave(p)
               /\ UNCHANGED vsprequests
          ELSE /\ vsprequests' = ungrantOne(vsprequests, name)
               /\ inflight' = [inflight EXCEPT ![p].pc = "revokeUser"]
               /\ UNCHANGED last
  /\ UNCHANGED <<users, revoked, freets, listed>>

\* findOneByUsername, updateOne and the response of the revoke handler
RevokeUserStep(p) ==
  /\ inflight[p].pc = "revokeUser"
  /\ LET name == inflight[p].arg
         r == RevokeUserWrite(users, name)
     IN /\ users' = r.users
        /\ revoked' = IF r.threw THEN revoked ELSE revoked \cup {name}
        /\ last' = IF r.threw
                     THEN Thrown("revoke", inflight[p].actor, name, "TypeError")
                     ELSE Response("revoke", inflight[p].actor, name, 200, "")
  /\ inflight' = Leave(p)
  /\ UNCHANGED <<vsprequests, freets, listed>>

(***************************************************************************)
(* SpecRace: signup and submit one at a time, then accept and revoke       *)
(* requests of several connections interleaved at their round trips.       *)
(***************************************************************************)
NextRace ==
  \/ \E n \in WorkflowNames : Signup(n)
  \/ \E a \in UserIds : Submit(a)
  \/ \E p \in Procs, a \in UserIds, n \in WorkflowNames : AcceptStart(p, a, n)
  \/ \E p \in Procs : AcceptRequestWrite(p)
  \/ \E p \in Procs : AcceptUserStep(p)
  \/ \E p \in Procs, a \in UserIds, n \in WorkflowNames : RevokeStart(p, a, n)
  \/ \E p \in Procs : RevokeRequestWrite(p)
  \/ \E p \in Procs : RevokeUserStep(p)

SpecRace == Init /\ [][NextRace]_vars

(***************************************************************************)
(* The follow handler as its separate storage round trips: the middleware  *)
(* chain, followedUser.save(), user.save().  A save may be rejected by the *)
(* store.                                                                  *)
(***************************************************************************)
\* every stored array can still take n more entries within MaxList
RoomFor(n) ==
  \A id \in ExistingIds(users) :
    /\ Len(users[id].following) + n <= MaxList
    /\ Len(users[id].followers) + n <= MaxList

\* PATCH /api/users/followers: the middleware chain
FollowStart(p, actor, d) ==
  /\ inflight[p].pc = "idle"
  /\ Exists(users, actor)
  /\ RoomFor(Cardinality({q \in Procs : inflight[q].pc # "idle"}) + 1)
  /\ IF isUserAlreadyFollowingTargetUser(users, actor, d)
       THEN /\ last' = Response("follow", actor, d.following, 409, "AlreadyFollowing")
            /\ UNCHANGED inflight
     ELSE IF isUserTryingToFollowSelf(users, actor, d)
       THEN /\ last' = Response("follow", actor, d.following, 403, "SelfFollow")
            /\ UNCHANGED inflight
     ELSE /\ inflight' = Enter(p, "saveFollowed", actor, d.following)
          /\ UNCHANGED last
  /\ UNCHANGED <<users, vsprequests, revoked, freets, listed>>

\* updateOne up to followedUser.save()
FollowTargetWrite(p) ==
  /\ inflight[p].pc = "saveFollowed"
  /\ LET actor == inflight[p].actor
         t == findOneExact(users, inflight[p].arg)
     IN IF ~Exists(users, actor) \/ t = 0
          THEN /\ last' = Thrown("follow", actor, inflight[p].arg, "TypeError")
               /\ inflight' = Leave(p)
               /\ UNCHANGED users
          ELSE /\ users' = pushFollower(users, t, users[actor].username)
               /\ inflight' = [inflight EXCEPT ![p].pc = "saveUser"]
               /\ UNCHANGED last
  /\ UNCHANGED <<vsprequests, revoked, freets, listed>>

\* user.save() and the response; ok is FALSE when the store rejects the save
FollowActorWrite(p, ok) ==
  /\ inflight[p].pc = "saveUser"
  /\ LET actor == inflight[p].actor
     IN IF ok
          THEN /\ users' = saveUser(users, actor, pushFollowing(users[actor], inflight[p].arg))
               /\ last' = Response("follow", actor, inflight[p].arg, 200, "")
          ELSE /\ users' = users
               /\ last' = Thrown("follow", actor, inflight[p].arg, "SaveRejected")
  /\ inflight' = Leave(p)
  /\ UNCHANGED <<vsprequests, revoked, freets, listed>>

(***************************************************************************)
(* SpecFollowSteps: signup one at a time, follow requests as round trips.  *)
(***************************************************************************)
\* the usernames the interleaving follow specification draws from
FollowNames == {"lola", "dave", "erin"}

NextFollowSteps ==
  \/ \E n \in FollowNames : Signup(n)
  \/ \E p \in Procs, a \in UserIds, n \in FollowNames :
       FollowStart(p, a, [EmptyBody EXCEPT !.following = n])
  \/ \E p \in Procs : FollowTargetWrite(p)
  \/ \E p \in Procs, ok \in BOOLEAN : FollowActorWrite(p, ok)

SpecFollowSteps == Init /\ [][NextFollowSteps]_vars

(***************************************************************************)
(* Spec: signup, profile update, follow, unfollow and the submit / accept / *)
(* revoke routes, one request at a time, the bodies of the user routes     *)
(* carrying further fields.                                                *)
(***************************************************************************)
\* the usernames Spec draws from
SmallNames == {"lola", "dave"}

\* the bodies the client sends to PUT /api/users: {username, password}
ProfileBodies == {[EmptyBody EXCEPT !.username = n] : n \in SmallNames}

\* the bodies the client sends to the followers routes in Spec
SmallFollowBodies == {[EmptyBody EXCEPT !.following = n] : n \in SmallNames}

Next ==
  \/ \E n \in SmallNames : Signup(n)
  \/ \E a \in UserIds, d \in WithExtras(ProfileBodies) : UpdateProfile(a, d)
  \/ \E a \in UserIds, d \in WithExtras(SmallFollowBodies) : Follow(a, d)
  \/ \E a \in UserIds, d \in WithExtras(SmallFollowBodies) : Unfollow(a, d)
  \/ \E a \in UserIds : Submit(a)
  \/ \E a \in UserIds, n \in SmallNames : Accept(a, n)
  \/ \E a \in UserIds, n \in SmallNames : Revoke(a, n)

Spec == Init /\ [][Next]_vars

\* the request completed by this step, if any
Completed(op) == last' # last /\ last'.op = op

\* the user document a username names (case-insensitively), if any
UserOf(name) == users[findOneByUsername(users, name)]

\* name's request was revoked and its user has not submitted since
Retired(name) == \E n \in revoked : Lower(n) = Lower(name)

\* C3: after submit -> accept -> revoke the user's verified flag is false, and
\* every later accept for that username fails until a new submit by that user
\* has succeeded.
RevocationIsFinal ==
  [][/\ Completed("revoke") /\ last'.status = 200
          => ~users'[findOneByUsername(users', last'.arg)].VSP
     /\ Completed("accept") /\ Retired(last'.arg) => last'.status # 200]_vars

\* C4: accept succeeds only for the admin and a request with granted = false;
\* an accept by the same caller right after a successful accept for the same
\* username fails with AlreadyGranted and changes neither request nor user.
WorkflowMonotonicity ==
  [][/\ Completed("accept") /\ last'.status = 200 =>
          /\ users[last'.actor].username = AdminName
          /\ VSPRequest_findOneExact(vsprequests, last'.arg) # 0
          /\ ~vsprequests[VSPRequest_findOneExact(vsprequests, last'.arg)].granted
     /\ (/\ last.op = "accept" /\ last.status = 200
         /\ Completed("accept")
         /\ last'.actor = last.actor
         /\ Lower(last'.arg) = Lower(last.arg))
        => /\ last'.status = 409 /\ last'.error = "AlreadyGranted"
           /\ UNCHANGED <<users, vsprequests>>]_vars

\* a second accept has been answered with AlreadyGranted
WorkflowMonotonicityWitness ==
  /\ last.op = "accept" /\ last.error = "AlreadyGranted"
  /\ \E i \in 1..Len(vsprequests) : vsprequests[i].granted /\ UserOf(vsprequests[i].username).VSP

\* C5: after submit -> accept -> revoke, a new submit by that (unverified) user
\* succeeds and creates a request with granted = false.
ResubmitAfterRevoke ==
  [][/\ Completed("submit")
     /\ Retired(last'.arg)
     /\ ~users[last'.actor].VSP
     => /\ last'.status = 201
        /\ vsprequests' = Append(vsprequests, [username |-> last'.arg, granted |-> FALSE])]_vars

\* C6: submit by a verified user fails with AlreadyVerified, submit by a user
\* with a request that is not granted fails with RequestAlreadyExists, neither
\* touches the requests; a successful submit adds exactly one request, for the
\* caller's username, with granted = false.
SubmitPreconditions ==
  [][Completed("submit") =>
       LET u == users[last'.actor]
           pending == \E i \in 1..Len(vsprequests) :
                         /\ Lower(vsprequests[i].username) = Lower(u.username)
                         /\ ~vsprequests[i].granted
       IN /\ last'.arg = u.username
          /\ u.VSP => last'.status = 409 /\ last'.error = "AlreadyVerified"
                        /\ UNCHANGED vsprequests
          /\ ~u.VSP /\ pending =>
               last'.status = 409 /\ last'.error = "RequestAlreadyExists"
                 /\ UNCHANGED vsprequests
          /\ last'.status # 201 => UNCHANGED vsprequests
          /\ last'.status = 201 =>
               /\ vsprequests' = Append(vsprequests, [username |-> u.username, granted |-> FALSE])
               /\ Cardinality({i \in 1..Len(vsprequests') :
                                 vsprequests'[i].username = u.username}) = 1]_vars

\* a submit has been refused because of the caller's pending request
SubmitPreconditionsWitness ==
  /\ last.op = "submit" /\ last.error = "RequestAlreadyExists"
  /\ \E i \in 1..Len(vsprequests) :
       vsprequests[i].username = last.arg /\ ~vsprequests[i].granted

AdminOps == {"accept", "revoke", "deleteRequest", "listPending", "listVSPs"}

\* C7: accept, revoke, delete-request and the two listings, called by a
\* logged-in user whose username is not the administrative one, fail with 401
\* and change no request and no verified flag.
AdminAuthority ==
  [][/\ last' # last
     /\ last'.op \in AdminOps
     /\ users[last'.actor].username # AdminName
     => /\ last'.status = 401 /\ last'.error = "NotAuthorized"
        /\ UNCHANGED <<vsprequests, users>>]_vars

\* a non-admin has been refused while a request to decide exists
AdminAuthorityWitness ==
  /\ last.op \in AdminOps /\ last.status = 401
  /\ users[last.actor].username # AdminName
  /\ Len(vsprequests) > 0

VerifiedOnlyByWorkflow ==
  [][\A id \in UserIds :
       Exists(users, id) /\ Exists(users', id) /\ users'[id].VSP # users[id].VSP
       => /\ last' # last
          /\ last'.status = 200
          /\ users[last'.actor].username = AdminName
          /\ last'.op = IF users'[id].VSP THEN "accept" ELSE "revoke"]_vars

\* C9: with accept and revoke requests interleaved at their round trips, no
\* state, in flight or settled, has a request whose granted flag differs from
\* the verified flag of its user.
AcceptRevokeAtomic ==
  \A i \in 1..Len(vsprequests) :
    findOneByUsername(users, vsprequests[i].username) # 0
      => UserOf(vsprequests[i].username).VSP = vsprequests[i].granted

\* C10: once a follow request has ended, also by a rejected save, the edge is
\* on both documents or on neither.
FollowAllOrNothing ==
  Idle /\ last.op = "follow" /\ Exists(users, last.actor)
    => \A t \in ExistingIds(users) :
         users[t].username = last.arg /\ t # last.actor
           => (includes(users[last.actor].following, last.arg)
                 <=> includes(users[t].followers, users[last.actor].username))

(***************************************************************************)
(* SpecRename: signup, profile update, follow and unfollow, one request at *)
(* a time; the body of a profile update may carry a following field.       *)
(***************************************************************************)
\* the usernames the rename specification draws from
RenameNames == {"lola", "dave", "erin"}

\* the bodies of PUT /api/users: {username} and {username, following}
RenameBodies ==
  {[EmptyBody EXCEPT !.username = n, !.following = f] :
     n \in RenameNames, f \in RenameNames \cup {NoVal}}

\* the bodies the client sends to the followers routes in SpecRename
RenameFollowBodies == {[EmptyBody EXCEPT !.following = n] : n \in RenameNames}

\* number of accounts the rename specification creates
MaxRenameUsers == 2

\* cap on the length of an array in the rename specification
MaxRenameList == 1

\* the following / followers arrays of us stay within MaxRenameList
ShortLists(us) ==
  \A id \in ExistingIds(us) :
    Len(us[id].following) <= MaxRenameList /\ Len(us[id].followers) <= MaxRenameList

NextRename ==
  \/ \E n \in RenameNames : Cardinality(ExistingIds(users)) < MaxRenameUsers /\ Signup(n)
  \/ \E a \in UserIds, d \in RenameBodies : UpdateProfile(a, d) /\ ShortLists(users')
  \/ \E a \in UserIds, d \in RenameFollowBodies : Follow(a, d) /\ ShortLists(users')
  \/ \E a \in UserIds, d \in RenameFollowBodies : Unfollow(a, d)

SpecRename == Init /\ [][NextRename]_vars

\* no value occurs twice in the array
NoDup(s) == \A i, j \in 1..Len(s) : s[i] = s[j] => i = j

\* the two sides of every edge between distinct users of us agree
Symmetric(us) ==
  \A a, b \in ExistingIds(us) :
    a # b => (includes(us[a].following, us[b].username)
                <=> includes(us[b].followers, us[a].username))

\* C12: in every reachable state a follow whose target is the caller's own
\* username is answered 403 SelfFollow and changes no user document.
NoSelfFollow ==
  [][Completed("follow") /\ users[last'.actor].username = last'.arg
       => /\ last'.status = 403 /\ last'.error = "SelfFollow"
          /\ UNCHANGED users]_vars

\* C13: a follow whose target is already in the caller's following array is
\* answered 409 AlreadyFollowing and changes no user document.
FollowExistingEdge ==
  [][Completed("follow") /\ includes(users[last'.actor].following, last'.arg)
       => /\ last'.status = 409 /\ last'.error = "AlreadyFollowing"
          /\ UNCHANGED users]_vars

\* a follow has been refused because the edge is there, on both documents
FollowExistingEdgeWitness ==
  /\ last.op = "follow" /\ last.error = "AlreadyFollowing"
  /\ includes(users[last.actor].following, last.arg)
  /\ includes(users[findOneExact(users, last.arg)].followers, users[last.actor].username)

\* C14: an unfollow whose target is not in the caller's following array is
\* answered 409 NotFollowing and changes nothing; otherwise it is answered 200,
\* takes the target out of the caller's following and the caller out of the
\* target's followers, and every other entry of every array stays.
UnfollowContract ==
  [][Completed("unfollow") =>
       LET a == last'.actor
           n == last'.arg
           t == findOneExact(users, n)
       IN IF ~includes(users[a].following, n)
            THEN /\ last'.status = 409 /\ last'.error = "NotFollowing"
                 /\ UNCHANGED users
            ELSE /\ last'.status = 200
                 /\ t # 0
                 /\ ~includes(users'[a].following, n)
                 /\ ~includes(users'[t].followers, users[a].username)
                 /\ users' = [users EXCEPT
                                ![t].followers = removeFirst(@, users[a].username),
                                ![a].following = removeFirst(@, n)]]_vars

RenameKeepsSymmetry ==
  [][Completed("update") /\ last'.status = 200 /\ Symmetric(users)
       => Symmetric(users')]_vars

\* C18: no user's following array holds that user's own current username.
NoSelfEdges ==
  \A id \in ExistingIds(users) : ~includes(users[id].following, users[id].username)

(***************************************************************************)
(* SpecFollowRace: signup one at a time, follow requests of several        *)
(* connections interleaved at their round trips, every save accepted.      *)
(***************************************************************************)
NextFollowRace ==
  \/ \E n \in FollowNames : Signup(n)
  \/ \E p \in Procs, a \in UserIds, n \in FollowNames :
       FollowStart(p, a, [EmptyBody EXCEPT !.following = n])
  \/ \E p \in Procs : FollowTargetWrite(p)
  \/ \E p \in Procs : FollowActorWrite(p, TRUE)

SpecFollowRace == Init /\ [][NextFollowRace]_vars

\* C11: while a follow is between its round trips, the documents another
\* request would read hold every edge on both sides or on neither.
NoHalfEdgeObservable ==
  (\E p \in Procs : inflight[p].pc # "idle") => Symmetric(users)

\* C16: once interleaved follow requests for one (actor, target) pair have all
\* ended, the edge is on both documents or on neither, and at most once on
\* each.
ConcurrentFollowSettles ==
  Idle => /\ Symmetric(users)
          /\ \A id \in ExistingIds(users) :
               NoDup(users[id].following) /\ NoDup(users[id].followers)

(***************************************************************************)
(* SpecLedger: signup, the submit and accept routes that set the VSP flag,  *)
(* freet creation and the four ledger routes, one request at a time.       *)
(***************************************************************************)
\* the usernames the ledger specification draws from
LedgerNames == {"lola", "dave"}

NextLedger ==
  \/ \E n \in LedgerNames : Signup(n)
  \/ \E a \in UserIds : Submit(a)
  \/ \E a \in UserIds, n \in LedgerNames : Accept(a, n)
  \/ \E a \in UserIds, fact \in BOOLEAN :
       /\ Cardinality({f \in FreetIds : FreetExists(freets, f)}) < MaxLedgerFreets
       /\ CreateFreet(a, "I love rust", fact)
  \/ \E a \in UserIds, f \in 1..MaxLedgerFreets : Endorse(a, f)
  \/ \E a \in UserIds, f \in 1..MaxLedgerFreets : Unendorse(a, f)
  \/ \E a \in UserIds, f \in 1..MaxLedgerFreets : Denounce(a, f)
  \/ \E a \in UserIds, f \in 1..MaxLedgerFreets : Undenounce(a, f)

SpecLedger == Init /\ [][NextLedger]_vars

LedgerOps == {"endorse", "unendorse", "denounce", "undenounce"}

\* the freet a ledger response names
FreetOf(r) == CHOOSE f \in FreetIds : ToString(f) = r.arg

\* C19: a ledger request on a freet that is not a fact is answered NotAFact,
\* one by a caller who is not a VSP is answered NotVerified, and neither
\* changes the endorsements or denouncements of any freet.
RoleTypeGating ==
  [][/\ last' # last
     /\ last'.op \in LedgerOps
     /\ FreetExists(freets, FreetOf(last'))
     /\ (~freets[FreetOf(last')].fact \/ ~users[last'.actor].VSP)
     => /\ last'.status = 403
        /\ last'.error \in {"NotAFact", "NotVerified"}
        /\ freets[FreetOf(last')].fact => last'.error = "NotVerified"
        /\ users[last'.actor].VSP => last'.error = "NotAFact"
        /\ UNCHANGED freets]_vars

\* a VSP has been refused on an opinion, whose arrays are still empty
RoleTypeGatingWitness ==
  /\ last.op = "endorse" /\ last.error = "NotAFact"
  /\ users[last.actor].VSP
  /\ ~freets[FreetOf(last)].fact
  /\ freets[FreetOf(last)].endorsements = <<>>
  /\ freets[FreetOf(last)].denouncements = <<>>

\* C20: with the ledger requests run one at a time behind their membership
\* checks, no endorsements array and no denouncements array holds the same
\* username twice.
LedgerUniqueness ==
  Idle => \A f \in FreetIds :
            FreetExists(freets, f) =>
              NoDup(freets[f].endorsements) /\ NoDup(freets[f].denouncements)

\* a user has endorsed again after unendorsing, next to a second endorser
LedgerUniquenessWitness ==
  /\ last.op = "endorse" /\ last.status = 200
  /\ Len(freets[FreetOf(last)].endorsements) = 2
  /\ freets[FreetOf(last)].endorsements[2] = users[last.actor].username
  /\ \E f \in FreetIds : FreetExists(freets, f) /\ Len(freets[f].denouncements) > 0

\* C28: with submit, accept, revoke and admin delete run one at a time, no
\* two request documents carry the same username, compared without regard to
\* case.
OneRequestPerUsername ==
  Idle => \A i, j \in 1..Len(vsprequests) :
            Lower(vsprequests[i].username) = Lower(vsprequests[j].username)
              => i = j

\* a submit has been refused while the requests of two users are stored
OneRequestPerUsernameWitness ==
  /\ last.op = "submit" /\ last.status = 409
  /\ \E i \in 1..Len(vsprequests) :
       Lower(vsprequests[i].username) = Lower(users[last.actor].username)
  /\ Len(vsprequests) = 2

\* C29: the list a successful GET /api/vsprequest returns holds exactly the
\* request documents whose granted flag is false at the time of the call,
\* each once and none with granted true, and the call changes no request.
ListPendingExact ==
  [][Completed("listPending") /\ last'.status = 200 =>
       /\ vsprequests' = vsprequests
       /\ \A i \in 1..Len(listed') :
            /\ ~listed'[i].granted
            /\ \E j \in 1..Len(vsprequests) : vsprequests[j] = listed'[i]
       /\ \A j \in 1..Len(vsprequests) :
            ~vsprequests[j].granted =>
              \E i \in 1..Len(listed') : listed'[i] = vsprequests[j]
       /\ Len(listed') =
            Cardinality({j \in 1..Len(vsprequests) : ~vsprequests[j].granted})]_vars

\* the returned list holds a request that was granted and later revoked and
\* leaves out one that is granted
ListPendingExactWitness ==
  /\ last.op = "listPending" /\ last.status = 200
  /\ \E i \in 1..Len(listed) : Retired(listed[i].username)
  /\ \E j \in 1..Len(vsprequests) : vsprequests[j].granted

\* C27: an add of a keyword already in the caller's interests is answered
\* 409 AlreadyPresent and a remove of a keyword not in them 409 NotPresent,
\* both leaving every user unchanged; a successful add or remove changes
\* nothing but the interests of the caller; and no user's interests hold a
\* keyword twice afterwards.
InterestsAsSet ==
  [][(Completed("addInterest") \/ Completed("deleteInterest")) =>
       LET a == last'.actor
           k == last'.arg
           had == includes(users[a].interests, k)
           refused == IF last'.op = "addInterest" THEN had ELSE ~had
       IN /\ refused <=> last'.status = 409
          /\ ~refused <=> last'.status = 200
          /\ refused => users' = users
          /\ refused => last'.error = IF last'.op = "addInterest"
                                        THEN "AlreadyPresent" ELSE "NotPresent"
          /\ \A id \in UserIds : id # a => users'[id] = users[id]
          /\ [users'[a] EXCEPT !.interests = users[a].interests] = users[a]
          /\ \A id \in ExistingIds(users') : NoDup(users'[id].interests)]_vars

\* the endorsers and the denouncers of freet f, empty when there is no such freet
Endorsers(fs, f) == IF FreetExists(fs, f) THEN fs[f].endorsements ELSE <<>>
Denouncers(fs, f) == IF FreetExists(fs, f) THEN fs[f].denouncements ELSE <<>>

\* C22: an endorse or unendorse request leaves the denouncers of every freet
\* as they were, and a denounce or undenounce request leaves the endorsers of
\* every freet as they were.
LedgerIndependence ==
  [][/\ (Completed("endorse") \/ Completed("unendorse")) =>
          \A f \in FreetIds : Denouncers(freets', f) = Denouncers(freets, f)
     /\ (Completed("denounce") \/ Completed("undenounce")) =>
          \A f \in FreetIds : Endorsers(freets', f) = Endorsers(freets, f)]_vars

\* a denounce request has been accepted from a user who stays among the
\* endorsers of the same freet
LedgerIndependenceWitness ==
  /\ last.op = "denounce"
  /\ last.status = 200
  /\ includes(Endorsers(freets, FreetOf(last)), users[last.actor].username)
  /\ includes(Denouncers(freets, FreetOf(last)), users[last.actor].username)

(***************************************************************************)
(* The endorse and denounce requests as their separate storage round       *)
(* trips: the middleware chain (reads), then the collection call (read,    *)
(* push, save).                                                            *)
(***************************************************************************)
\* the arrays of freet f can take the pushes of the requests in flight and
\* one more within MaxList
LedgerRoom(f) ==
  FreetExists(freets, f) =>
    LET n == Cardinality({q \in Procs : inflight[q].pc # "idle"}) + 1
    IN Len(freets[f].endorsements) + n <= MaxList
         /\ Len(freets[f].denouncements) + n <= MaxList

\* a ledger route up to the end of its middleware chain c
LedgerStart(p, op, pc, actor, f, c) ==
  /\ inflight[p].pc = "idle"
  /\ Exists(users, actor)
  /\ LedgerRoom(f)
  /\ IF c # Pass
       THEN /\ last' = Response(op, actor, ToString(f), c.status, c.error)
            /\ UNCHANGED inflight
       ELSE /\ inflight' = Enter(p, pc, actor, ToString(f))
            /\ UNCHANGED last
  /\ UNCHANGED <<users, vsprequests, revoked, freets, listed>>

\* PATCH /api/freets/endorsements: the middleware chain
EndorseStart(p, actor, f) ==
  LedgerStart(p, "endorse", "addOneEndorsement", actor, f,
              EndorseChain(freets, users, f, actor))

\* FreetCollection.addOneEndorsement and the response
EndorseWrite(p) ==
  /\ inflight[p].pc = "addOneEndorsement"
  /\ freets' = addOneEndorsement(freets, FreetOf(inflight[p]),
                                 users[inflight[p].actor].username)
  /\ last' = Response("endorse", inflight[p].actor, inflight[p].arg, 200, "")
  /\ inflight' = Leave(p)
  /\ UNCHANGED <<users, vsprequests, revoked, listed>>

\* PATCH /api/freets/denouncements: the middleware chain
DenounceStart(p, actor, f) ==
  LedgerStart(p, "denounce", "addOneDenouncement", actor, f,
              DenounceChain(freets, users, f, actor))

\* FreetCollection.addOneDenouncement and the response
DenounceWrite(p) ==
  /\ inflight[p].pc = "addOneDenouncement"
  /\ freets' = addOneDenouncement(freets, FreetOf(inflight[p]),
                                  users[inflight[p].actor].username)
  /\ last' = Response("denounce", inflight[p].actor, inflight[p].arg, 200, "")
  /\ inflight' = Leave(p)
  /\ UNCHANGED <<users, vsprequests, revoked, listed>>

(***************************************************************************)
(* SpecLedgerRace: signup, submit, accept and freet creation one at a      *)
(* time, endorse and denounce requests of several connections interleaved  *)
(* at their round trips.                                                   *)
(***************************************************************************)
NextLedgerRace ==
  \/ \E n \in LedgerNames : Signup(n)
  \/ \E a \in UserIds : Submit(a)
  \/ \E a \in UserIds, n \in LedgerNames : Accept(a, n)
  \/ \E a \in UserIds :
       /\ Cardinality({f \in FreetIds : FreetExists(freets, f)}) < MaxLedgerFreets
       /\ CreateFreet(a, "I love rust", TRUE)
  \/ \E p \in Procs, a \in UserIds, f \in 1..MaxLedgerFreets : EndorseStart(p, a, f)
  \/ \E p \in Procs : EndorseWrite(p)
  \/ \E p \in Procs, a \in UserIds, f \in 1..MaxLedgerFreets : DenounceStart(p, a, f)
  \/ \E p \in Procs : DenounceWrite(p)

SpecLedgerRace == Init /\ [][NextLedgerRace]_vars

\* C21: with endorse (denounce) requests interleaved between the membership
\* check and the insert, no endorsements array and no denouncements array
\* ever holds the same username twice.
ConcurrentLedgerUniqueness ==
  \A f \in FreetIds :
    FreetExists(freets, f) =>
      NoDup(freets[f].endorsements) /\ NoDup(freets[f].denouncements)

(***************************************************************************)
(* The submit request as its separate storage round trips: the middleware  *)
(* chain (reads), then the handler (read of the user, insert).             *)
(***************************************************************************)
\* POST /api/vsprequest: the middleware chain
SubmitStart(p, actor) ==
  /\ inflight[p].pc = "idle"
  /\ Exists(users, actor)
  /\ LET c == SubmitChain(users, vsprequests, actor)
     IN IF c # Pass
          THEN /\ last' = Response("submit", actor, users[actor].username,
                                   c.status, c.error)
               /\ UNCHANGED inflight
          ELSE /\ inflight' = Enter(p, "addOne", actor, NoVal)
               /\ UNCHANGED last
  /\ UNCHANGED <<users, vsprequests, revoked, freets, listed>>

\* the handler: findOneByUserId, VSPRequestCollection.addOne, the response
SubmitWrite(p) ==
  /\ inflight[p].pc = "addOne"
  /\ LET name == users[inflight[p].actor].username
     IN /\ vsprequests' = VSPRequest_addOne(vsprequests, name)
        /\ revoked' = {n \in revoked : Lower(n) # Lower(name)}
        /\ last' = Response("submit", inflight[p].actor, name, 201, "")
  /\ inflight' = Leave(p)
  /\ UNCHANGED <<users, freets, listed>>

(***************************************************************************)
(* SpecSubmitRace: signup one at a time, submit requests of several        *)
(* connections interleaved at their round trips.                           *)
(***************************************************************************)
NextSubmitRace ==
  \/ \E n \in WorkflowNames : Signup(n)
  \/ \E p \in Procs, a \in UserIds : SubmitStart(p, a)
  \/ \E p \in Procs : SubmitWrite(p)

SpecSubmitRace == Init /\ [][NextSubmitRace]_vars

\* C30: once the submit requests in flight have completed, no two request
\* documents carry the same username.
ConcurrentOneRequestPerUsername ==
  Idle => \A i, j \in 1..Len(vsprequests) :
            vsprequests[i].username = vsprequests[j].username => i = j

(***************************************************************************)
(* Recommendations.                                                        *)
(***************************************************************************)
\* FreetModel.find({}).sort({dateModified: -1}), as freet ids: ids are given
\* out in creation order and no freet is edited, so the most recently
\* modified freet is the one with the largest id
allFreetsSorted(fs) ==
  LET n == Cardinality({f \in FreetIds : FreetExists(fs, f)})
  IN [i \in 1..n |-> n + 1 - i]

\* faulty variant: the authors the user follows are not left out
findRecommended_followedToo(us, fs, userId) ==
  LET userInterests == us[userId].interests
      authorName(f) == us[fs[f].authorId].username
      Interesting(f) ==
        \E i \in 1..Len(userInterests) : stringIncludes(fs[f].content, userInterests[i])
      interestingFreets == SelectSeq(allFreetsSorted(fs), Interesting)
      NewAuthor(i) ==
        \A j \in 1..(i-1) : authorName(interestingFreets[j]) # authorName(interestingFreets[i])
      firsts == SelectSeq([i \in 1..Len(interestingFreets) |-> i], NewAuthor)
  IN [i \in 1..Len(firsts) |-> us[fs[interestingFreets[firsts[i]]].authorId]]

\* UserCollection.findRecommended
findRecommended(us, fs, userId) ==
  LET userInterests == us[userId].interests
      userFollowing == us[userId].following
      authorName(f) == us[fs[f].authorId].username
      NotFollowed(f) == ~includes(userFollowing, authorName(f))
      freetsToCheck == SelectSeq(allFreetsSorted(fs), NotFollowed)
      Interesting(f) ==
        \E i \in 1..Len(userInterests) : stringIncludes(fs[f].content, userInterests[i])
      interestingFreets == SelectSeq(freetsToCheck, Interesting)
      NewAuthor(i) ==
        \A j \in 1..(i-1) : authorName(interestingFreets[j]) # authorName(interestingFreets[i])
      firsts == SelectSeq([i \in 1..Len(interestingFreets) |-> i], NewAuthor)
  IN [i \in 1..Len(firsts) |-> us[fs[interestingFreets[firsts[i]]].authorId]]

\* faulty variant: a user without interests passes
isUserHasInterests_always(us, id) == TRUE

\* TRUE when the middleware calls next()
isUserHasInterests(us, id) == Len(us[id].interests) # 0

\* faulty variant: the first recommended account is followed on the way
Recommend_follows(actor) ==
  /\ Idle
  /\ Exists(users, actor)
  /\ IF ~isUserHasInterests(users, actor)
       THEN /\ last' = Response("recommend", actor, NoVal, 404, "NoInterests")
            /\ listed' = <<>>
            /\ users' = users
       ELSE LET found == findRecommended(users, freets, actor)
            IN /\ last' = Response("recommend", actor, NoVal, 200, "")
               /\ listed' = found
               /\ users' = IF found = <<>> THEN users
                           ELSE [users EXCEPT ![actor].following = <<found[1].username>>]
  /\ UNCHANGED <<vsprequests, revoked, inflight, freets>>

\* GET /api/users/recommended
Recommend(actor) ==
  /\ Idle
  /\ Exists(users, actor)
  /\ IF ~isUserHasInterests(users, actor)
       THEN /\ last' = Response("recommend", actor, NoVal, 404, "NoInterests")
            /\ listed' = <<>>
       ELSE /\ last' = Response("recommend", actor, NoVal, 200, "")
            /\ listed' = findRecommended(users, freets, actor)
  /\ UNCHANGED <<users, vsprequests, revoked, inflight, freets>>

(***************************************************************************)
(* SpecRecommend: signup, interests, follow, freet creation and the        *)
(* recommendations route, one request at a time.                           *)
(***************************************************************************)
\* the usernames the recommendation specification draws from
RecommendNames == {"lola", "dave"}

RecommendFollowBodies == {[EmptyBody EXCEPT !.following = n] : n \in RecommendNames}

NextRecommend ==
  \/ \E n \in RecommendNames : Signup(n)
  \/ \E a \in UserIds, d \in InterestBodies : AddInterest(a, d)
  \/ \E a \in UserIds, d \in RecommendFollowBodies : Follow(a, d)
  \/ \E a \in UserIds, c \in Contents : CreateFreet(a, c, FALSE)
  \/ \E a \in UserIds : Recommend(a)

SpecRecommend == Init /\ [][NextRecommend]_vars

(***************************************************************************)
(* SpecRecommendFrame: signup, submit, interests, freet creation and the   *)
(* recommendations route, one request at a time.                           *)
(***************************************************************************)
NextRecommendFrame ==
  \/ \E n \in RecommendNames : Signup(n)
  \/ \E a \in UserIds : Submit(a)
  \/ \E a \in UserIds, d \in InterestBodies : AddInterest(a, d)
  \/ \E a \in UserIds, c \in Contents :
       /\ Cardinality({f \in FreetIds : FreetExists(freets, f)}) < MaxLedgerFreets
       /\ CreateFreet(a, c, FALSE)
  \/ \E a \in UserIds : Recommend(a)

SpecRecommendFrame == Init /\ [][NextRecommendFrame]_vars

\* the freets whose content holds one of the interests of user a
Matching(a) ==
  {f \in FreetIds :
     /\ FreetExists(freets, f)
     /\ \E i \in 1..Len(users[a].interests) :
          stringIncludes(freets[f].content, users[a].interests[i])}

\* the username of the author of freet f
AuthorOf(f) == users[freets[f].authorId].username

\* the most recent freet of author n among those matching for user a
Newest(a, n) ==
  CHOOSE f \in Matching(a) :
    /\ AuthorOf(f) = n
    /\ \A g \in Matching(a) : AuthorOf(g) = n => g <= f

\* C23: the list of a successful recommend holds neither the caller nor any
\* user whose username is in the caller's following.
RecommendExclusion ==
  [][Completed("recommend") /\ last'.status = 200 =>
       \A i \in 1..Len(listed') :
         /\ listed'[i].username # users[last'.actor].username
         /\ ~includes(users[last'.actor].following, listed'[i].username)]_vars

RecommendNoInterests ==
  [][Completed("recommend") =>
       /\ users[last'.actor].interests = <<>> <=>
            (last'.status = 404 /\ last'.error = "NoInterests")
       /\ users[last'.actor].interests # <<>> <=> last'.status = 200]_vars

\* a caller with interests gets an empty list while freets exist
RecommendNoInterestsWitness ==
  /\ last.op = "recommend" /\ last.status = 200
  /\ listed = <<>>
  /\ users[last.actor].interests # <<>>
  /\ \E f \in FreetIds : FreetExists(freets, f)

\* C26: a recommend, answered 200 or 404, leaves every user, every freet
\* and every request as it was.
RecommendReadOnly ==
  [][Completed("recommend") =>
       /\ users' = users
       /\ freets' = freets
       /\ vsprequests' = vsprequests]_vars

\* a recommend has returned an account while a request is stored
RecommendReadOnlyWitness ==
  /\ last.op = "recommend" /\ last.status = 200
  /\ Len(listed) > 0
  /\ Len(vsprequests) > 0

\* C31: with submit, accept, revoke and the admin delete run one at a time,
\* every user whose VSP flag is set has a request with granted set, so a
\* revoke of a verified user is never answered RequestNotFound.
VerifiedHasGrantedRequest ==
  Idle => \A id \in ExistingIds(users) :
            users[id].VSP =>
              \E i \in 1..Len(vsprequests) :
                /\ Lower(vsprequests[i].username) = Lower(users[id].username)
                /\ vsprequests[i].granted

\* C32: an accept or a revoke changes nothing in the users collection but
\* the VSP flag of the user the request body names: that user's username,
\* interests, following and followers, and every other user's document, stay
\* as they were.
AcceptRevokeFrame ==
  [][(Completed("accept") \/ Completed("revoke")) =>
       \A id \in UserIds :
         IF id = findOneByUsername(users, last'.arg)
           THEN /\ Exists(users', id)
                /\ [users'[id] EXCEPT !.VSP = users[id].VSP] = users[id]
           ELSE users'[id] = users[id]]_vars

\* an accept has set the flag of a user who follows someone and is followed
AcceptRevokeFrameWitness ==
  /\ last.op = "accept" /\ last.status = 200
  /\ UserOf(last.arg).VSP
  /\ UserOf(last.arg).following # <<>>
  /\ UserOf(last.arg).followers # <<>>

(***************************************************************************)
(* SpecIdentity: signup, username change, accept and revoke one at a time, *)
(* with the first account the only one that ever submits a request. No     *)
(* account is deleted, so account 1 stays the same account throughout.     *)
(***************************************************************************)
NextIdentity ==
  \/ \E n \in SmallNames : Signup(n)
  \/ \E a \in UserIds, d \in ProfileBodies : UpdateProfile(a, d)
  \/ Submit(1)
  \/ \E a \in UserIds, n \in SmallNames : Accept(a, n)
  \/ \E a \in UserIds, n \in SmallNames : Revoke(a, n)

SpecIdentity == Init /\ [][NextIdentity]_vars

\* C33: a successful accept sets the VSP flag only on the account whose own
\* submit created the request; in SpecIdentity every request was created by
\* account 1, so no accept sets the flag of another account.
GrantedToSubmitterOnly ==
  [][Completed("accept") /\ last'.status = 200 =>
       \A id \in UserIds :
         Exists(users', id) /\ users'[id].VSP /\ ~users[id].VSP => id = 1]_vars

(***************************************************************************)
(* SpecAdmin: signup, username change and the add-interest route, one      *)
(* request at a time, the add-interest bodies carrying a username field.   *)
(***************************************************************************)
\* bodies of PATCH /api/users/interests that carry a username besides the
\* keyword
InterestRenameBodies ==
  InterestBodies \cup
    {[EmptyBody EXCEPT !.interests = k, !.username = n] : k \in Keywords, n \in SmallNames}

NextAdmin ==
  \/ \E n \in SmallNames : Signup(n)
  \/ \E a \in UserIds, d \in ProfileBodies : UpdateProfile(a, d)
  \/ \E a \in UserIds, d \in InterestRenameBodies : AddInterest(a, d)

SpecAdmin == Init /\ [][NextAdmin]_vars

\* C34: with requests run one at a time, at most one account passes the
\* admin check.
SingleAdmin ==
  Idle => Cardinality({id \in ExistingIds(users) : isUserAdmin(users, id)}) <= 1

\* C35: an accept that sets the granted flag of a request also sets the VSP
\* flag of the user the request names; it never leaves a request granted
\* with no user made verified.
AcceptNotPartial ==
  [][Completed("accept") /\ vsprequests' # vsprequests =>
       /\ findOneByUsername(users', last'.arg) # 0
       /\ users'[findOneByUsername(users', last'.arg)].VSP]_vars

\* C36: a follow request whose target username matches no stored user
\* exactly leaves every user document as it was.
FollowMissingTarget ==
  [][Completed("follow") /\ findOneExact(users, last'.arg) = 0 =>
       users' = users]_vars

(***************************************************************************)
(* Account deletion.                                                       *)
(***************************************************************************)
\* UserCollection.deleteOne
User_deleteOne(us, userId) == [us EXCEPT ![userId] = NoUser]

\* FreetCollection.deleteMany
Freet_deleteMany(fs, authorId) ==
  [f \in FreetIds |-> IF fs[f].authorId = authorId THEN NoFreet ELSE fs[f]]

\* DELETE /api/users
DeleteAccount(actor) ==
  /\ Idle
  /\ Exists(users, actor)
  /\ users' = User_deleteOne(users, actor)
  /\ freets' = Freet_deleteMany(freets, actor)
  /\ last' = Response("deleteAccount", actor, users[actor].username, 200, "")
  /\ UNCHANGED <<vsprequests, revoked, inflight>>
  /\ listed' = <<>>

(***************************************************************************)
(* SpecDeletion: signup, follow, freet creation and account deletion, one  *)
(* request at a time.                                                      *)
(***************************************************************************)
NextDeletion ==
  \/ \E n \in SmallNames : Signup(n)
  \/ \E a \in UserIds, d \in SmallFollowBodies : Follow(a, d)
  \/ \E a \in UserIds :
       /\ Cardinality({f \in FreetIds : FreetExists(freets, f)}) < MaxLedgerFreets
       /\ CreateFreet(a, "I love rust", FALSE)
  \/ \E a \in UserIds : DeleteAccount(a)

SpecDeletion == Init /\ [][NextDeletion]_vars

\* C37: once an account is deleted, no remaining user's following or
\* followers array holds the deleted account's username.
DeletionIntegrity ==
  [][Completed("deleteAccount") =>
       \A id \in ExistingIds(users') :
         /\ ~includes(users'[id].following, last'.arg)
         /\ ~includes(users'[id].followers, last'.arg)]_vars

(***************************************************************************)
(* SpecLedgerRevoke: signup, submit, accept, revoke, creation of one fact   *)
(* and the endorse and denounce routes on it, one request at a time.       *)
(***************************************************************************)
NextLedgerRevoke ==
  \/ \E n \in LedgerNames : Signup(n)
  \/ \E a \in UserIds : Submit(a)
  \/ \E a \in UserIds, n \in LedgerNames : Accept(a, n)
  \/ \E a \in UserIds, n \in LedgerNames : Revoke(a, n)
  \/ \E a \in UserIds :
       /\ \A f \in FreetIds : ~FreetExists(freets, f)
       /\ CreateFreet(a, "I love rust", TRUE)
  \/ \E a \in UserIds, f \in FreetIds : FreetExists(freets, f) /\ Endorse(a, f)
  \/ \E a \in UserIds, f \in FreetIds : FreetExists(freets, f) /\ Denounce(a, f)

SpecLedgerRevoke == Init /\ [][NextLedgerRevoke]_vars

\* C38: an accept or a revoke leaves the endorsers and the denouncers of
\* every freet as they were.
WorkflowLeavesLedger ==
  [][(Completed("accept") \/ Completed("revoke")) =>
       \A f \in FreetIds :
         /\ Endorsers(freets', f) = Endorsers(freets, f)
         /\ Denouncers(freets', f) = Denouncers(freets, f)]_vars

\* a revoke has cleared the VSP flag of a user who is still among the
\* endorsers of a freet
WorkflowLeavesLedgerWitness ==
  /\ last.op = "revoke" /\ last.status = 200
  /\ ~UserOf(last.arg).VSP
  /\ \E f \in FreetIds : includes(Endorsers(freets, f), UserOf(last.arg).username)

(***************************************************************************)
(* SpecCollection: the four FreetCollection ledger functions called        *)
(* directly, with no middleware in front, on one freet whose endorsements  *)
(* and denouncements start as any arrays of usernames within MaxList.      *)
(***************************************************************************)
\* the arrays over S of length at most n
SeqsUpTo(S, n) == UNION {[1..k -> S] : k \in 0..n}

InitCollection ==
  /\ users = [id \in UserIds |->
                IF id = 1 THEN addOne("lola")
                ELSE IF id = 2 THEN addOne("dave") ELSE NoUser]
  /\ vsprequests = <<>>
  /\ last = [op |-> "none", actor |-> 0, arg |-> NoVal, status |-> 0, error |-> "", tick |-> 0]
  /\ revoked = {}
  /\ inflight = [p \in Procs |-> IdleProc]
  /\ \E e \in SeqsUpTo(RenameNames, MaxList), d \in SeqsUpTo(RenameNames, MaxList) :
       freets = [f \in FreetIds |->
                   IF f = 1
                     THEN [Freet_addOne(1, "I love rust", TRUE)
                             EXCEPT !.endorsements = e, !.denouncements = d]
                     ELSE NoFreet]
  /\ listed = <<>>

\* a direct call of a collection function: recorded in last, with no HTTP
\* status
CollectionCall(op, userId, f, written) ==
  /\ Idle
  /\ Exists(users, userId)
  /\ FreetExists(freets, f)
  /\ freets' = written
  /\ last' = Response(op, userId, ToString(f), 0, "")
  /\ UNCHANGED <<users, vsprequests, revoked, inflight>>
  /\ listed' = <<>>

CallAddOneEndorsement(userId, f) ==
  /\ Len(Endorsers(freets, f)) < MaxList
  /\ CollectionCall("addOneEndorsement", userId, f,
                    addOneEndorsement(freets, f, users[userId].username))

CallDeleteOneEndorsement(userId, f) ==
  CollectionCall("deleteOneEndorsement", userId, f,
                 deleteOneEndorsement(freets, f, users[userId].username))

CallAddOneDenouncement(userId, f) ==
  /\ Len(Denouncers(freets, f)) < MaxList
  /\ CollectionCall("addOneDenouncement", userId, f,
                    addOneDenouncement(freets, f, users[userId].username))

CallDeleteOneDenouncement(userId, f) ==
  CollectionCall("deleteOneDenouncement", userId, f,
                 deleteOneDenouncement(freets, f, users[userId].username))

NextCollection ==
  \/ \E a \in UserIds, f \in FreetIds : CallAddOneEndorsement(a, f)
  \/ \E a \in UserIds, f \in FreetIds : CallDeleteOneEndorsement(a, f)
  \/ \E a \in UserIds, f \in FreetIds : CallAddOneDenouncement(a, f)
  \/ \E a \in UserIds, f \in FreetIds : CallDeleteOneDenouncement(a, f)

SpecCollection == InitCollection /\ [][NextCollection]_vars

\* new is old with its first occurrence of n taken out, or old itself when
\* n does not occur in it
FirstRemoved(old, new, n) ==
  IF \E i \in 1..Len(old) : old[i] = n
    THEN /\ Len(new) = Len(old) - 1
         /\ \E i \in 1..Len(old) :
              /\ old[i] = n
              /\ \A j \in 1..(i-1) : old[j] # n /\ new[j] = old[j]
              /\ \A j \in i..Len(new) : new[j] = old[j+1]
    ELSE new = old

====
